---- MODULE Spec2Model ----
(***************************************************************************)
(* A model of server.py, the "local-folder-server": eight file operations   *)
(* (list_files, read_file, write_file, append_file, delete_file,            *)
(* create_directory, delete_directory, file_info) over one workspace        *)
(* directory of a POSIX filesystem.                                         *)
(*                                                                          *)
(* A path string is the sequence of its '/'-separated segments, so          *)
(*   ""       is <<"">>            "a/b"   is <<"a", "b">>                  *)
(*   "a/"     is <<"a", "">>       "/h/w"  is <<"", "h", "w">>              *)
(* and the string operations of os.path (join, split, dirname, abspath)     *)
(* are operators on such sequences.  A node of the filesystem is the        *)
(* sequence of names from "/" to it; the filesystem maps its nodes to a     *)
(* directory or to a file with its bytes.  There are no symbolic links: no  *)
(* operation of the program creates one.                                    *)
(***************************************************************************)
EXTENDS Integers, Sequences, FiniteSets, TLC

VARIABLES
    fs,      \* the filesystem: node |-> [kind, data]
    last,    \* the last call: its operation, arguments, outcome and return value
    pc,      \* concurrent create_directory calls: each call's position
    stack,   \* ... each call's pending os.makedirs frames (path strings)
    rres,    \* ... each call's outcome
    rarg     \* ... the directory argument the concurrent calls share

vars == <<fs, last, pc, stack, rres, rarg>>

(***************************************************************************)
(* Bounds of the model.                                                     *)
(***************************************************************************)
\* The longest content argument, in characters.
MaxLen == 1
\* The largest file, in bytes (write_file and append_file are not called past it).
MaxFile == 1
\* The same for the calls on text.
MaxTextFile == 2

(***************************************************************************)
(* Path strings.                                                            *)
(***************************************************************************)
\* WORKSPACE = os.path.abspath("workspace"): here the string "/h/w".
WORKSPACE == <<"", "h", "w">>

Root == <<>>
\* "No such node": no node holds the empty name.
NoNode == <<"">>

Front(s) == SubSeq(s, 1, Len(s) - 1)
Last(s) == s[Len(s)]

\* A string that starts with '/'.
IsAbs(p) == Len(p) >= 2 /\ p[1] = ""

\* os.path.join(a, p) for an a that does not end in '/'.
Join(a, p) == IF IsAbs(p) THEN p ELSE a \o p

\* os.path.join(d, item) for a name item: no second '/' after a trailing one.
JoinItem(d, item) == IF Last(d) = "" THEN Front(d) \o <<item>> ELSE d \o <<item>>

\* s.rstrip('/') of a string that holds a '/', unless it is all slashes.
RECURSIVE RStrip(_)
RStrip(s) ==
    IF Len(s) >= 2 /\ Last(s) = "" /\ (\E i \in 1..Len(s) : s[i] # "")
    THEN RStrip(Front(s))
    ELSE s

\* posixpath.split(s) of an absolute path string: (head, tail).
Split(s) == [head |-> RStrip(Front(s) \o <<"">>), tail |-> Last(s)]

\* posixpath.dirname(s).
Dirname(s) == Split(s).head

\* os.path.abspath(s) of an absolute path string: normpath, which is lexical
\* ("" and "." dropped, ".." drops the name before it); the result as a node.
RECURSIVE Norm(_, _)
Norm(acc, comps) ==
    IF comps = <<>> THEN acc
    ELSE LET c == Head(comps) IN
         IF c = "" \/ c = "." THEN Norm(acc, Tail(comps))
         ELSE IF c = ".." THEN Norm(IF acc = <<>> THEN acc ELSE Front(acc), Tail(comps))
         ELSE Norm(Append(acc, c), Tail(comps))

Abspath(s) == Norm(<<>>, Tail(s))

(***************************************************************************)
(* The filesystem and its system calls.                                     *)
(***************************************************************************)
Dir == [kind |-> "dir", data |-> <<>>]
File(bytes) == [kind |-> "file", data |-> bytes]

IsDirNode(f, n) == n \in DOMAIN f /\ f[n].kind = "dir"
IsFileNode(f, n) == n \in DOMAIN f /\ f[n].kind = "file"

IsPrefix(n, m) == Len(n) <= Len(m) /\ SubSeq(m, 1, Len(n)) = n
Children(f, n) == {m \in DOMAIN f : Len(m) = Len(n) + 1 /\ IsPrefix(n, m)}

\* The kernel's path walk from node cur: the node reached, or NoNode. Every
\* component, "" (a second or trailing slash) included, needs a directory to
\* stand on; ".." of "/" is "/".
RECURSIVE Walk(_, _, _)
Walk(f, cur, comps) ==
    IF comps = <<>> THEN cur
    ELSE IF ~IsDirNode(f, cur) THEN NoNode
    ELSE LET c == Head(comps) IN
         IF c = "" \/ c = "." THEN Walk(f, cur, Tail(comps))
         ELSE IF c = ".." THEN Walk(f, IF cur = Root THEN Root ELSE Front(cur), Tail(comps))
         ELSE IF Append(cur, c) \in DOMAIN f THEN Walk(f, Append(cur, c), Tail(comps))
         ELSE NoNode

\* The node an absolute path string names, or NoNode.
Lookup(f, s) == Walk(f, Root, Tail(s))

Exists(f, s) == Lookup(f, s) \in DOMAIN f
IsDir(f, s) == IsDirNode(f, Lookup(f, s))
IsFile(f, s) == IsFileNode(f, Lookup(f, s))

Put(f, n, e) == [m \in DOMAIN f \cup {n} |-> IF m = n THEN e ELSE f[m]]
Drop(f, gone) == [m \in DOMAIN f \ gone |-> f[m]]

\* mkdir(2): [fs, err] with err "ok", "EEXIST" or "ENOENT" (any other errno).
Mkdir(f, s) ==
    LET t == RStrip(s)
        name == Last(t)
        parent == Walk(f, Root, Tail(Front(t)))
    IN  IF name = "" THEN [fs |-> f, err |-> "EEXIST"]
        ELSE IF ~IsDirNode(f, parent) THEN [fs |-> f, err |-> "ENOENT"]
        ELSE IF name \in {".", ".."} \/ Append(parent, name) \in DOMAIN f
             THEN [fs |-> f, err |-> "EEXIST"]
        ELSE [fs |-> Put(f, Append(parent, name), Dir), err |-> "ok"]

\* rmdir(2) of a path string that names the empty directory n.
Rmdir(f, s) ==
    LET t == RStrip(s)
        name == Last(t)
        parent == Walk(f, Root, Tail(Front(t)))
    IN  IF name \in {"", ".", ".."} \/ ~IsDirNode(f, parent)
             \/ ~IsDirNode(f, Append(parent, name))
        THEN [fs |-> f, err |-> "EINVAL"]
        ELSE [fs |-> Drop(f, {Append(parent, name)}), err |-> "ok"]

\* unlink(2) of a path string that names a file.
Unlink(f, s) == Drop(f, {Lookup(f, s)})

\* os.makedirs(name, exist_ok): the parents first, each by a mkdir of its own;
\* a FileExistsError of the recursive call is swallowed, any other is raised.
RECURSIVE Makedirs(_, _, _)
Makedirs(f, name, exist_ok) ==
    LET sp0 == Split(name)
        sp == IF sp0.tail = "" THEN Split(sp0.head) ELSE sp0
        recurse == sp.tail # "" /\ ~Exists(f, sp.head)
        sub == IF recurse THEN Makedirs(f, sp.head, exist_ok) ELSE [fs |-> f, err |-> "ok"]
    IN  IF sub.err \notin {"ok", "EEXIST"} THEN sub
        ELSE IF recurse /\ sp.tail = "." THEN [fs |-> sub.fs, err |-> "ok"]
        ELSE LET m == Mkdir(sub.fs, name) IN
             IF m.err # "ok" /\ exist_ok /\ IsDir(sub.fs, name)
             THEN [fs |-> sub.fs, err |-> "ok"]
             ELSE m

\* shutil.rmtree(s) of a path string that names a directory: everything
\* beneath it is removed first, then the directory by an rmdir of the string.
Rmtree(f, s) ==
    LET n == Lookup(f, s)
        emptied == Drop(f, {m \in DOMAIN f : IsPrefix(n, m) /\ m # n})
    IN  Rmdir(emptied, s)

(***************************************************************************)
(* Text files: open(..., encoding="utf-8") in text mode with the default    *)
(* newline handling.  A character is "x", "E" (a two-byte character), "CR"  *)
(* or "LF"; a file holds bytes.                                             *)
(***************************************************************************)
\* os.linesep of a POSIX host.
Linesep == <<"LF">>

Utf8(ch) ==
    CASE ch = "x" -> <<120>>
      [] ch = "E" -> <<195, 169>>
      [] ch = "CR" -> <<13>>
      [] ch = "LF" -> <<10>>

\* The UTF-8 encoder.
RECURSIVE Utf8Encode(_)
Utf8Encode(text) ==
    IF text = <<>> THEN <<>> ELSE Utf8(Head(text)) \o Utf8Encode(Tail(text))

\* Newlines on writing: "\n" becomes os.linesep, nothing else changes.
RECURSIVE NewlineOut(_)
NewlineOut(text) ==
    IF text = <<>> THEN <<>>
    ELSE (IF Head(text) = "LF" THEN Linesep ELSE <<Head(text)>>) \o NewlineOut(Tail(text))

\* f.write(text) on a text-mode file: the bytes written.
TextWrite(text) == Utf8Encode(NewlineOut(text))

\* The UTF-8 decoder: the characters, or <<"invalid">> for bytes that are none.
RECURSIVE Utf8Decode(_)
Utf8Decode(bytes) ==
    IF bytes = <<>> THEN <<>>
    ELSE LET b == Head(bytes)
             one == CASE b = 120 -> "x" [] b = 13 -> "CR" [] b = 10 -> "LF" [] OTHER -> "invalid"
         IN  IF b = 195 /\ Len(bytes) >= 2 /\ bytes[2] = 169
             THEN LET rest == Utf8Decode(Tail(Tail(bytes))) IN
                  IF rest = <<"invalid">> THEN rest ELSE <<"E">> \o rest
             ELSE IF one = "invalid" THEN <<"invalid">>
             ELSE LET rest == Utf8Decode(Tail(bytes)) IN
                  IF rest = <<"invalid">> THEN rest ELSE <<one>> \o rest

\* Universal newlines on reading: "\r\n" and a lone "\r" both become "\n".
RECURSIVE Universal(_)
Universal(text) ==
    IF text = <<>> THEN <<>>
    ELSE IF Head(text) = "CR"
         THEN <<"LF">> \o Universal(IF Len(text) >= 2 /\ text[2] = "LF"
                                    THEN Tail(Tail(text)) ELSE Tail(text))
    ELSE <<Head(text)>> \o Universal(Tail(text))

\* f.read() of a text-mode file.
TextRead(bytes) ==
    LET t == Utf8Decode(bytes) IN IF t = <<"invalid">> THEN t ELSE Universal(t)

\* open(s, "w" or "a") and f.write(text): [fs, err].
OpenWrite(f, s, text, append) ==
    LET n == Lookup(f, s)
        name == Last(s)
        parent == Walk(f, Root, Tail(Front(s)))
    IN  IF n \in DOMAIN f
        THEN IF f[n].kind = "dir" THEN [fs |-> f, err |-> "EISDIR"]
             ELSE [fs |-> Put(f, n, File((IF append THEN f[n].data ELSE <<>>) \o TextWrite(text))),
                   err |-> "ok"]
        ELSE IF name \in {"", ".", ".."} \/ ~IsDirNode(f, parent)
             THEN [fs |-> f, err |-> "ENOENT"]
        ELSE [fs |-> Put(f, Append(parent, name), File(TextWrite(text))), err |-> "ok"]

(***************************************************************************)
(* Ordering of the listing: Python's sorted() on strings, by code point.    *)
(***************************************************************************)
Code(ch) ==
    CASE ch = "/" -> 47
      [] ch = "a" -> 97
      [] ch = "b" -> 98
      [] ch = "h" -> 104
      [] ch = "o" -> 111
      [] ch = "w" -> 119

\* u < v for two strings given as sequences of characters.
RECURSIVE StrLess(_, _)
StrLess(u, v) ==
    IF v = <<>> THEN FALSE
    ELSE IF u = <<>> THEN TRUE
    ELSE IF Head(u) = Head(v) THEN StrLess(Tail(u), Tail(v))
    ELSE Code(Head(u)) < Code(Head(v))

RECURSIVE Insert(_, _)
Insert(e, s) ==
    IF s = <<>> THEN <<e>>
    ELSE IF StrLess(e, Head(s)) THEN <<e>> \o s
    ELSE <<Head(s)>> \o Insert(e, Tail(s))

RECURSIVE Sorted(_)
Sorted(s) == IF s = <<>> THEN <<>> ELSE Insert(Head(s), Sorted(Tail(s)))

\* The orders os.listdir may return the names of directory n in.
Listings(f, n) ==
    LET names == {Last(m) : m \in Children(f, n)} IN
    {s \in [1..Cardinality(names) -> names] : \A i, j \in DOMAIN s : i # j => s[i] # s[j]}

(***************************************************************************)
(* The operations.  Each is a function of the filesystem and the call's     *)
(* arguments to [fs, res, ret]: the filesystem left behind, the outcome and *)
(* the "result" returned.  res is "ok" or the kind of error raised:         *)
(*   NotFound, InvalidArgument, AlreadyExists, PermissionDenied: the        *)
(*     ValueError of the operation's own check, by its message;             *)
(*   IOError: an OSError of the filesystem call; DecodeError.               *)
(***************************************************************************)
Result(f, res, ret) == [fs |-> f, res |-> res, ret |-> ret]

\* list_files without its two sorted(): the entries in the order of os.listdir.
list_files_unsorted(f, directory, items) ==
    LET target_dir == Join(WORKSPACE, directory)
        isd(item) == IsDir(f, JoinItem(target_dir, item))
        entry(i) == IF isd(items[i]) THEN <<items[i], "/">> ELSE <<items[i]>>
        all == [i \in DOMAIN items |-> entry(i)]
        dirs == SelectSeq(all, LAMBDA e : Len(e) = 2)
        files == SelectSeq(all, LAMBDA e : Len(e) = 1)
    IN  IF ~Exists(f, target_dir) THEN Result(f, "NotFound", <<>>)
        ELSE IF ~IsDir(f, target_dir) THEN Result(f, "InvalidArgument", <<>>)
        ELSE Result(f, "ok", dirs \o files)

\* items: the order os.listdir returns the directory's names in.
list_files(f, directory, items) ==
    LET target_dir == Join(WORKSPACE, directory)
        isd(item) == IsDir(f, JoinItem(target_dir, item))
        entry(i) == IF isd(items[i]) THEN <<items[i], "/">> ELSE <<items[i]>>
        all == [i \in DOMAIN items |-> entry(i)]
        dirs == SelectSeq(all, LAMBDA e : Len(e) = 2)
        files == SelectSeq(all, LAMBDA e : Len(e) = 1)
    IN  IF ~Exists(f, target_dir) THEN Result(f, "NotFound", <<>>)
        ELSE IF ~IsDir(f, target_dir) THEN Result(f, "InvalidArgument", <<>>)
        ELSE Result(f, "ok", Sorted(dirs) \o Sorted(files))

read_file(f, filename) ==
    LET filepath == Join(WORKSPACE, filename) IN
    IF ~IsFile(f, filepath) THEN Result(f, "NotFound", <<>>)
    ELSE LET content == TextRead(f[Lookup(f, filepath)].data) IN
         IF content = <<"invalid">> THEN Result(f, "DecodeError", <<>>)
         ELSE Result(f, "ok", content)

\* write_file that opens the file with "a" where the code has "w".
write_file_append(f, filename, content) ==
    LET filepath == Join(WORKSPACE, filename)
        md == Makedirs(f, Dirname(filepath), TRUE)
        w == OpenWrite(md.fs, filepath, content, TRUE)
    IN  IF md.err # "ok" THEN Result(md.fs, "IOError", <<>>)
        ELSE IF w.err # "ok" THEN Result(w.fs, "IOError", <<>>)
        ELSE Result(w.fs, "ok", <<>>)

write_file(f, filename, content) ==
    LET filepath == Join(WORKSPACE, filename)
        md == Makedirs(f, Dirname(filepath), TRUE)
        w == OpenWrite(md.fs, filepath, content, FALSE)
    IN  IF md.err # "ok" THEN Result(md.fs, "IOError", <<>>)
        ELSE IF w.err # "ok" THEN Result(w.fs, "IOError", <<>>)
        ELSE Result(w.fs, "ok", <<>>)

append_file(f, filename, content) ==
    LET filepath == Join(WORKSPACE, filename)
        w == OpenWrite(f, filepath, content, TRUE)
    IN  IF ~IsFile(f, filepath) THEN Result(f, "NotFound", <<>>)
        ELSE IF w.err # "ok" THEN Result(w.fs, "IOError", <<>>)
        ELSE Result(w.fs, "ok", <<>>)

\* delete_file without its os.path.isdir check: os.remove of a directory
\* raises IsADirectoryError.
delete_file_nodircheck(f, filename) ==
    LET filepath == Join(WORKSPACE, filename) IN
    IF ~Exists(f, filepath) THEN Result(f, "NotFound", <<>>)
    ELSE IF IsDir(f, filepath) THEN Result(f, "IOError", <<>>)
    ELSE Result(Unlink(f, filepath), "ok", <<>>)

delete_file(f, filename) ==
    LET filepath == Join(WORKSPACE, filename) IN
    IF ~Exists(f, filepath) THEN Result(f, "NotFound", <<>>)
    ELSE IF IsDir(f, filepath) THEN Result(f, "InvalidArgument", <<>>)
    ELSE Result(Unlink(f, filepath), "ok", <<>>)

\* create_directory without its os.path.exists check.
create_directory_nocheck(f, directory) ==
    LET dirpath == Join(WORKSPACE, directory)
        md == Makedirs(f, dirpath, FALSE)
    IN  IF md.err # "ok" THEN Result(md.fs, "IOError", <<>>)
        ELSE Result(md.fs, "ok", <<>>)

create_directory(f, directory) ==
    LET dirpath == Join(WORKSPACE, directory)
        md == Makedirs(f, dirpath, FALSE)
    IN  IF Exists(f, dirpath) THEN Result(f, "AlreadyExists", <<>>)
        ELSE IF md.err # "ok" THEN Result(md.fs, "IOError", <<>>)
        ELSE Result(md.fs, "ok", <<>>)

delete_directory(f, directory) ==
    LET dirpath == Join(WORKSPACE, directory)
        rm == Rmtree(f, dirpath)
    IN  IF ~Exists(f, dirpath) THEN Result(f, "NotFound", <<>>)
        ELSE IF ~IsDir(f, dirpath) THEN Result(f, "InvalidArgument", <<>>)
        ELSE IF Abspath(dirpath) = Abspath(WORKSPACE) THEN Result(f, "PermissionDenied", <<>>)
        ELSE IF rm.err # "ok" THEN Result(rm.fs, "IOError", <<>>)
        ELSE Result(rm.fs, "ok", <<>>)

file_info(f, filename) ==
    LET filepath == Join(WORKSPACE, filename)
        n == Lookup(f, filepath)
        is_dir == IsDirNode(f, n)
        dir_count == Cardinality({m \in Children(f, n) : f[m].kind = "dir"})
        file_count == Cardinality(Children(f, n)) - dir_count
    IN  IF ~Exists(f, filepath) THEN Result(f, "NotFound", <<>>)
        ELSE Result(f, "ok",
                    [is_directory |-> is_dir,
                     size |-> IF is_dir THEN 0 ELSE Len(f[n].data),
                     absolute_path |-> Abspath(filepath),
                     contents |-> IF is_dir THEN <<file_count, dir_count>> ELSE <<>>])

(***************************************************************************)
(* The calls of the model.                                                  *)
(***************************************************************************)
Seqs(S, n) == UNION {[1..k -> S] : k \in 0..n}

\* The path arguments: "", ".", "a", "b", "a/", "a/b", "a/.", "a/..", "..",
\* "../o", "/h/w", "/h/w/" and "/h/o".
PathArgs ==
    { <<"">>, <<".">>, <<"a">>, <<"b">>, <<"a", "">>, <<"a", "b">>, <<"a", ".">>,
      <<"a", "..">>, <<"..">>, <<"..", "o">>, <<"", "h", "w">>, <<"", "h", "w", "">>,
      <<"", "h", "o">> }

Contents == Seqs({"x"}, MaxLen)

\* The path and content arguments of the calls on text: "a" and "b".
TextPaths == { <<"a">>, <<"b">> }
TextContents == Seqs({"x", "E", "CR", "LF"}, MaxLen)

Procs == {1, 2}

\* What a path argument names before a call: "dir", "file" or "none".
KindAt(f, p) ==
    LET n == Lookup(f, Join(WORKSPACE, p)) IN
    IF n \in DOMAIN f THEN f[n].kind ELSE "none"

Fits(f, cap) == \A n \in DOMAIN f : Len(f[n].data) <= cap

\* One call returns: the filesystem is as the call left it.
Return(op, p, c, result, cap) ==
    \E r \in {result} :
        /\ Fits(r.fs, cap)
        /\ fs' = r.fs
        /\ last' = [op |-> op, arg |-> p, content |-> c, res |-> r.res, ret |-> r.ret,
                    pre |-> KindAt(fs, p)]
        /\ UNCHANGED <<pc, stack, rres, rarg>>

ListFiles(p) ==
    \E items \in (IF IsDir(fs, Join(WORKSPACE, p))
                  THEN Listings(fs, Lookup(fs, Join(WORKSPACE, p))) ELSE {<<>>}) :
        Return("list_files", p, <<>>, list_files(fs, p, items), MaxFile)

ReadFile(p) == Return("read_file", p, <<>>, read_file(fs, p), MaxTextFile)
WriteFile(p, c, cap) == Return("write_file", p, c, write_file(fs, p, c), cap)
AppendFile(p, c, cap) == Return("append_file", p, c, append_file(fs, p, c), cap)
DeleteFile(p) == Return("delete_file", p, <<>>, delete_file(fs, p), MaxTextFile)
CreateDirectory(p) == Return("create_directory", p, <<>>, create_directory(fs, p), MaxFile)
DeleteDirectory(p) == Return("delete_directory", p, <<>>, delete_directory(fs, p), MaxFile)
FileInfo(p) == Return("file_info", p, <<>>, file_info(fs, p), MaxFile)

\* os.makedirs(WORKSPACE, exist_ok=True) at start-up: "/", "/h" and "/h/w".
Init ==
    /\ fs = [n \in {Root, <<"h">>, <<"h", "w">>} |-> Dir]
    /\ last = [op |-> "none", arg |-> <<"">>, content |-> <<>>, res |-> "ok",
               ret |-> <<>>, pre |-> "dir"]
    /\ pc = [i \in Procs |-> "idle"]
    /\ stack = [i \in Procs |-> <<>>]
    /\ rres = [i \in Procs |-> "none"]
    /\ rarg = <<"">>

Next ==
    \E p \in PathArgs :
        \/ ListFiles(p)
        \/ ReadFile(p)
        \/ \E c \in Contents : WriteFile(p, c, MaxFile)
        \/ \E c \in Contents : AppendFile(p, c, MaxFile)
        \/ DeleteFile(p)
        \/ CreateDirectory(p)
        \/ DeleteDirectory(p)
        \/ FileInfo(p)

Spec == Init /\ [][Next]_vars

NextText ==
    \E p \in TextPaths :
        \/ ReadFile(p)
        \/ \E c \in TextContents : WriteFile(p, c, MaxTextFile)
        \/ \E c \in TextContents : AppendFile(p, c, MaxTextFile)
        \/ DeleteFile(p)

SpecText == Init /\ [][NextText]_vars

(***************************************************************************)
(* Two create_directory calls on one path, run at once by a host that does  *)
(* not serialize them.  A step is one system call of a call: the            *)
(* os.path.exists of create_directory, then inside os.makedirs the          *)
(* os.path.exists of a frame's parent and the mkdir of a frame.             *)
(***************************************************************************)
\* The shared directory argument, a path that does not exist yet: "a", "a/",
\* "a/b", "a/b/" or "a/.".
RacePaths == { <<"a">>, <<"a", "">>, <<"a", "b">>, <<"a", "b", "">>, <<"a", ".">> }

\* The (head, tail) os.makedirs works with: of the head when the tail is empty.
MakedirsSplit(name) ==
    LET sp0 == Split(name) IN IF sp0.tail = "" THEN Split(sp0.head) ELSE sp0

\* os.makedirs(dirpath, exist_ok=True): a FileExistsError of the outermost mkdir
\* is swallowed too.
RECURSIVE Unwind_exist_ok(_, _)
Unwind_exist_ok(stk, err) ==
    IF stk = <<>>
    THEN [stack |-> <<>>, pc |-> "done",
          res |-> IF err \in {"ok", "EEXIST"} THEN "ok" ELSE "IOError"]
    ELSE IF err \notin {"ok", "EEXIST"} THEN Unwind_exist_ok(Front(stk), err)
    ELSE IF MakedirsSplit(Last(stk)).tail = "." THEN Unwind_exist_ok(Front(stk), "ok")
    ELSE [stack |-> stk, pc |-> "mkdir", res |-> "none"]

\* A frame of os.makedirs ends with err: what is left of the frames stk below it.
\* Its caller swallows FileExistsError and goes on to its own mkdir, or returns
\* at once when its tail is "."; any other error is raised through every frame.
RECURSIVE Unwind(_, _)
Unwind(stk, err) ==
    IF stk = <<>>
    THEN [stack |-> <<>>, pc |-> "done", res |-> IF err = "ok" THEN "ok" ELSE "IOError"]
    ELSE IF err \notin {"ok", "EEXIST"} THEN Unwind(Front(stk), err)
    ELSE IF MakedirsSplit(Last(stk)).tail = "." THEN Unwind(Front(stk), "ok")
    ELSE [stack |-> stk, pc |-> "mkdir", res |-> "none"]

\* The host starts call i; a second call takes the path of the first.
Invoke(i, d) ==
    /\ pc[i] = "idle"
    /\ (\E j \in Procs : pc[j] # "idle") => d = rarg
    /\ pc' = [pc EXCEPT ![i] = "check"]
    /\ rarg' = d
    /\ UNCHANGED <<fs, last, stack, rres>>

\* create_directory: if os.path.exists(dirpath): raise ValueError(...).
Check(i) ==
    /\ pc[i] = "check"
    /\ IF Exists(fs, Join(WORKSPACE, rarg))
       THEN /\ pc' = [pc EXCEPT ![i] = "done"]
            /\ rres' = [rres EXCEPT ![i] = "AlreadyExists"]
            /\ UNCHANGED stack
       ELSE /\ pc' = [pc EXCEPT ![i] = "probe"]
            /\ stack' = [stack EXCEPT ![i] = <<Join(WORKSPACE, rarg)>>]
            /\ UNCHANGED rres
    /\ UNCHANGED <<fs, last, rarg>>

\* os.makedirs: if head and tail and not path.exists(head): makedirs(head).
Probe(i) ==
    /\ pc[i] = "probe"
    /\ LET sp == MakedirsSplit(Last(stack[i])) IN
       IF sp.tail # "" /\ ~Exists(fs, sp.head)
       THEN /\ stack' = [stack EXCEPT ![i] = Append(@, sp.head)]
            /\ UNCHANGED pc
       ELSE /\ pc' = [pc EXCEPT ![i] = "mkdir"]
            /\ UNCHANGED stack
    /\ UNCHANGED <<fs, last, rres, rarg>>

\* os.makedirs: mkdir(name, mode), whose OSError is raised (exist_ok is False).
MkdirStep(i) ==
    /\ pc[i] = "mkdir"
    /\ \E m \in {Mkdir(fs, Last(stack[i]))} :
       \E u \in {Unwind(Front(stack[i]), m.err)} :
           /\ fs' = m.fs
           /\ pc' = [pc EXCEPT ![i] = u.pc]
           /\ stack' = [stack EXCEPT ![i] = u.stack]
           /\ rres' = [rres EXCEPT ![i] = u.res]
    /\ UNCHANGED <<last, rarg>>

NextRace ==
    \E i \in Procs :
        \/ \E d \in RacePaths : Invoke(i, d)
        \/ Check(i)
        \/ Probe(i)
        \/ MkdirStep(i)

SpecRace == Init /\ [][NextRace]_vars

(***************************************************************************)
(* The claims.                                                              *)
(***************************************************************************)
\* The workspace root as a node, and the node a path argument denotes.
WsNode == Abspath(WORKSPACE)
Target(p) == Abspath(Join(WORKSPACE, p))
InWorkspace(n) == IsPrefix(WsNode, n)

PathOps == {"list_files", "read_file", "write_file", "append_file", "delete_file",
            "create_directory", "delete_directory", "file_info"}
MutatingOps == {"write_file", "append_file", "delete_file", "create_directory",
                "delete_directory"}

\* C1: every operation acts inside the workspace: a call whose path denotes a
\* place outside WorkspaceRoot fails, and nothing outside the workspace is ever
\* created, changed or removed ("/" and "/h" stay as they were, with no new entry).
C1_NeverOutsideWorkspace ==
    /\ (last.op \in PathOps /\ ~InWorkspace(Target(last.arg))) => last.res # "ok"
    /\ \A n \in DOMAIN fs : InWorkspace(n) \/ n \in {Root, <<"h">>}
    /\ IsDirNode(fs, Root) /\ IsDirNode(fs, <<"h">>)

\* C2: delete_directory of any argument that denotes the workspace root fails
\* with PermissionDenied, and the workspace root is a directory in every state.
C2_RootNeverDeleted ==
    /\ (last.op = "delete_directory" /\ Target(last.arg) = WsNode)
           => last.res = "PermissionDenied"
    /\ IsDirNode(fs, WsNode)

\* C3: after write_file(f, c), read_file(f) returns exactly c, and writing c
\* again leaves the filesystem as it is.
C3_WriteThenRead ==
    (last.op = "write_file" /\ last.res = "ok")
        => /\ read_file(fs, last.arg).res = "ok"
           /\ read_file(fs, last.arg).ret = last.content
           /\ write_file(fs, last.arg, last.content).fs = fs

\* C4: append_file(f, c) on an existing file makes read_file(f) return what it
\* returned before followed by c (so two appends give c0 c1 c2); on anything
\* that is no existing file it fails with NotFound and creates nothing.
C4_AppendConcatenates ==
    [][last'.op = "append_file"
          => IF last'.pre = "file"
             THEN /\ last'.res = "ok"
                  /\ read_file(fs', last'.arg).ret
                        = read_file(fs, last'.arg).ret \o last'.content
             ELSE last'.res = "NotFound" /\ fs' = fs]_vars

\* C5: straight after a successful create_directory(d), create_directory(d)
\* fails with AlreadyExists; create_directory of anything that exists fails with
\* AlreadyExists; straight after a successful delete_directory(d),
\* delete_directory(d) fails with NotFound; the failing call changes nothing.
C5_SecondCallFails ==
    /\ (last.op = "create_directory" /\ last.res = "ok")
           => create_directory(fs, last.arg) = Result(fs, "AlreadyExists", <<>>)
    /\ (last.op = "create_directory" /\ last.pre # "none")
           => last.res = "AlreadyExists"
    /\ (last.op = "delete_directory" /\ last.res = "ok")
           => delete_directory(fs, last.arg) = Result(fs, "NotFound", <<>>)

\* C5's case: a directory has just been created below a parent created with it.
C5_Witness ==
    /\ last.op = "create_directory" /\ last.res = "ok" /\ last.arg = <<"a", "b">>
    /\ IsDirNode(fs, <<"h", "w", "a", "b">>)

\* C6 as stated: write_file over any existing entry, file or directory,
\* succeeds and leaves a file with exactly the content.
C6_WriteOverAnyEntry ==
    (last.op = "write_file" /\ last.pre # "none")
        => /\ last.res = "ok"
           /\ IsFileNode(fs, Target(last.arg))
           /\ fs[Target(last.arg)].data = Utf8Encode(last.content)

\* C6 as amended: write_file over an existing regular file succeeds; a
\* write_file that succeeds leaves a regular file holding exactly the content,
\* below a directory; write_file over an existing directory fails with an
\* OSError and the directory stays.
C6_WriteOverFile ==
    /\ (last.op = "write_file" /\ last.pre = "file") => last.res = "ok"
    /\ (last.op = "write_file" /\ last.res = "ok")
           => /\ IsFileNode(fs, Target(last.arg))
              /\ fs[Target(last.arg)].data = Utf8Encode(last.content)
              /\ IsDirNode(fs, Front(Target(last.arg)))
    /\ (last.op = "write_file" /\ last.pre = "dir")
           => last.res = "IOError" /\ IsDirNode(fs, Target(last.arg))

\* C6's case: a file has just been overwritten with a content that is not empty.
C6_Witness ==
    /\ last.op = "write_file" /\ last.pre = "file" /\ last.res = "ok"
    /\ last.content # <<>>

\* C7: delete_file of a regular file removes that entry and no other; of a
\* missing path it fails with NotFound, of a directory with InvalidArgument,
\* and then nothing is removed.
C7_DeleteFileRemovesOne ==
    [][last'.op = "delete_file"
          => CASE last'.pre = "file" ->
                    /\ last'.res = "ok"
                    /\ DOMAIN fs' = DOMAIN fs \ {Target(last'.arg)}
                    /\ \A n \in DOMAIN fs' : fs'[n] = fs[n]
               [] last'.pre = "none" -> last'.res = "NotFound" /\ fs' = fs
               [] last'.pre = "dir" -> last'.res = "InvalidArgument" /\ fs' = fs]_vars

\* C7's case: "a/b" has just been deleted; its parent and a sibling of the
\* parent are still there.
C7_Witness ==
    /\ last.op = "delete_file" /\ last.res = "ok" /\ last.arg = <<"a", "b">>
    /\ IsDirNode(fs, <<"h", "w", "a">>) /\ <<"h", "w", "b">> \in DOMAIN fs

BothDone == \A i \in Procs : pc[i] = "done"
Winners == {i \in Procs : rres[i] = "ok"}

Shown(f, m) == IF f[m].kind = "dir" THEN <<Last(m), "/">> ELSE <<Last(m)>>

\* C9: list_files of a directory returns one entry per child, directories
\* (name and '/') before files, each group ascending; of a missing path it
\* fails with NotFound, of a file with InvalidArgument.
C9_ListingSorted ==
    last.op = "list_files"
        => CASE last.pre = "none" -> last.res = "NotFound"
             [] last.pre = "file" -> last.res = "InvalidArgument"
             [] last.pre = "dir" ->
                  LET kids == Children(fs, Target(last.arg))
                      r == last.ret
                  IN  /\ last.res = "ok"
                      /\ Len(r) = Cardinality(kids)
                      /\ {r[i] : i \in DOMAIN r} = {Shown(fs, m) : m \in kids}
                      /\ \A i, j \in DOMAIN r :
                            i < j => \/ Len(r[i]) = 2 /\ Len(r[j]) = 1
                                     \/ Len(r[i]) = Len(r[j]) /\ StrLess(r[i], r[j])

\* C9's case: a listing in which the directory "b/" stands before the file "a".
C9_Witness ==
    last.op = "list_files" /\ last.res = "ok" /\ last.ret = << <<"b", "/">>, <<"a">> >>

\* C10: a call of a mutating operation that fails leaves the filesystem as it
\* was (stated for the calls whose path stays inside the workspace).
C10_FailureChangesNothing ==
    [][(last'.op \in MutatingOps /\ last'.res # "ok" /\ InWorkspace(Target(last'.arg)))
          => fs' = fs]_vars

====
